---- MODULE Spec2Model ----
(***************************************************************************)
(* DynamicVariable (sparse_operation_kit/experiment/dynamic_variable.py):  *)
(* a framework variable with two handles, the framework's own dense buffer *)
(* ("static" mode) and a dynamic key/value store ("dynamic" mode).         *)
(*                                                                         *)
(* One instance is modelled.  A row of the embedding table is represented  *)
(* by one component: every operation of the adapter acts on all columns of *)
(* a row alike.  The native ops (raw_ops) and the framework base class are *)
(* not part of the Python source; they are modelled by their contract:     *)
(* the dynamic store is a total map from keys to rows (a key never written *)
(* reads as its initial value), the native ops never raise, and the        *)
(* framework base acts on the dense buffer addressed by the active handle. *)
(***************************************************************************)
EXTENDS Integers, Sequences, FiniteSets, TLC

\* ------------------------------------------------------------------ bounds

\* Stored values range over 0..MaxVal; calls that would leave a value outside
\* that range are not taken.
MaxVal == 4

\* Mantissa bits of the value dtype (float32 has 24; scaled down).
Precision == 1

\* The keys of the dynamic store, and the row numbers of the dense buffer.
Keys == {0, 1}

\* ------------------------------------------------------- value arithmetic

Abs(x) == IF x < 0 THEN -x ELSE x

RECURSIVE Pow2(_)
Pow2(n) == IF n = 0 THEN 1 ELSE 2 * Pow2(n - 1)

\* x is a value of the floating dtype: a mantissa of Precision bits times a
\* power of two.
Representable(x) ==
    \/ x = 0
    \/ \E e \in 0..(2 * MaxVal), m \in 1..(Pow2(Precision) - 1) :
         Abs(x) = m * Pow2(e)

Reps == {r \in 0..(4 * MaxVal) : Representable(r)}

\* Round to nearest, ties to the even mantissa (IEEE 754 default).
RoundMag(a) ==
    LET lo == CHOOSE r \in Reps : r <= a /\ \A s \in Reps : s <= a => s <= r
        hi == CHOOSE r \in Reps : r >= a /\ \A s \in Reps : s >= a => s >= r
    IN  IF lo = hi THEN lo
        ELSE IF a - lo < hi - a THEN lo
        ELSE IF hi - a < a - lo THEN hi
        ELSE IF (lo \div (hi - lo)) % 2 = 0 THEN lo ELSE hi

Round(x) == IF x < 0 THEN -RoundMag(-x) ELSE RoundMag(x)

\* Addition in the value dtype.
FAdd(x, y) == Round(x + y)

Values == {x \in 0..MaxVal : Representable(x)}

\* ------------------------------------------------------------- arguments

\* A Python None, for the optional constructor arguments.
None == "None"

\* The `mode` argument: None, a string "localized:<gpu>", or any other string.
NoneMode == [none |-> TRUE, localized |-> FALSE, gpu |-> 0]
LocalizedMode(n) == [none |-> FALSE, localized |-> TRUE, gpu |-> n]
OtherMode == [none |-> FALSE, localized |-> FALSE, gpu |-> 0]

\* The constructor's arguments (dimension, key_type, dtype, mode).
CtorArgs ==
    { [dimension |-> 1, key_type |-> None, dtype |-> None, mode |-> NoneMode],
      [dimension |-> 2, key_type |-> "int32", dtype |-> "float16",
       mode |-> LocalizedMode(0)],
      [dimension |-> 1, key_type |-> None, dtype |-> None, mode |-> OtherMode] }

\* An `indices` argument: a key tensor with a dtype, or something that is no
\* tensor (a Python list, None).  NoIndices is the value of self._indices
\* while no index set is recorded (Python's None).
IndexTensor(dt, ks) == [kind |-> "tensor", dtype |-> dt, keys |-> ks]
NotATensor == [kind |-> "other", dtype |-> "none", keys |-> <<>>]
NoIndices == [kind |-> "None", dtype |-> "none", keys |-> <<>>]

IndexArgs ==
    { NotATensor,
      IndexTensor("int64", <<1, 1>>),
      IndexTensor("int32", <<0, 1>>) }

\* A `sparse_delta` argument: an ops.IndexedSlices (values, indices), or
\* something else (a dense tensor, a tuple).
IndexedSlices(vs, ix) == [slices |-> TRUE, indices |-> ix, values |-> vs]
NotSlices == [slices |-> FALSE, indices |-> <<>>, values |-> <<>>]

DeltaArgs ==
    { NotSlices,
      IndexedSlices(<<1>>, <<0>>),
      IndexedSlices(<<2>>, <<1>>),
      IndexedSlices(<<1, 2>>, <<0, 0>>),
      IndexedSlices(<<1, 1>>, <<0, 1>>) }

\* Dense tensors handed to the framework's writers (assign and the like).
TensorArgs == { <<1>>, <<2, 1>> }

\* --------------------------------------------------------------- handles

\* self._tf_handle: the handle ResourceVariable.__init__ created.
tf_handle == "tf_handle"

\* self._dummy_handle: the handle dummy_var_handle created.
dummy_handle == "dummy_handle"

\* ----------------------------------------------------------------- state

VARIABLES
    handle,         \* self._handle, the active handle
    indices,        \* self._indices
    key_type,       \* self._key_type
    handle_dtype,   \* self._handle_dtype
    dimension,      \* self._dimension
    mode,           \* self._mode
    tfBuffer,       \* the dense buffer behind tf_handle: a sequence of rows
    store,          \* the dynamic store behind dummy_handle: key -> row
    last,           \* the most recent call and how it ended
    lastSwitch,     \* the most recent successful mode switch
    staticArg,      \* the argument of the to_static that began the static phase
    snap,           \* the store and delta before a dynamic scatter_add
    gpus,           \* what num_gpus() returns on this machine
    returned,       \* the value the most recent property read returned
    iter,           \* session_impl_test: the loop variable i
    pc,             \* session_impl_test: the statement to execute next
    trains,         \* session_impl_test: calls of sess.train() so far
    losses,         \* session_impl_test: calls of sess.get_current_loss() so far
    evals           \* session_impl_test: calls of sess.evaluation() so far

adapter == <<handle, indices>>
ctor == <<key_type, handle_dtype, dimension, mode>>
data == <<tfBuffer, store>>
history == <<lastSwitch, staticArg>>
session == <<iter, pc, trains, losses, evals>>
vars == <<handle, indices, key_type, handle_dtype, dimension, mode, tfBuffer,
          store, last, lastSwitch, staticArg, snap, gpus, returned,
          iter, pc, trains, losses, evals>>

\* What the methods that are no property reads leave alone.
elsewhere == <<gpus, returned, session>>

\* How a call ended: "ok" (the adapter returned what the base or the native
\* op returned) or the error raised; whether the framework base
\* implementation was reached; the handle given to a native op, if any.
Call(op, outcome, base, native) ==
    [op |-> op, outcome |-> outcome, base |-> base, native |-> native]

\* snap.phase is "added" right after a dynamic scatter_add, "subtracted" right
\* after the scatter_sub of the same delta that follows it, "none" otherwise;
\* snap.exact tells that no addition of those calls was rounded.  Right after
\* a to_dynamic that switched, snap.phase is "flushed", snap.delta holds the
\* buffer rows and the index set the instance had, snap.store the store before
\* the call, and snap.direct tells that the call before was the to_static that
\* opened the static phase.
NoSnap ==
    [phase |-> "none", delta |-> NotSlices, store |-> [k \in Keys |-> 0],
     exact |-> TRUE, direct |-> FALSE]

\* Mutant: the instance starts on the framework's handle unless mode is None.
InitHandle_ByMode(m) == IF m.none THEN dummy_handle ELSE tf_handle

\* The handle __init__ leaves active (line 103).
InitHandle(m) == dummy_handle

\* No property has been read yet.
NoReturn == [given |-> FALSE, value |-> 0]

\* session_impl_test has not been entered.
SessionIdle ==
    /\ iter = 0
    /\ pc = "idle"
    /\ trains = 0
    /\ losses = 0
    /\ evals = 0

\* Mutant: the key type given is ignored.
KeyTypeOf_Ignored(k) == "int64"

\* self._key_type (line 41).
KeyTypeOf(k) == IF k # None THEN k ELSE "int64"

\* self._handle_dtype (line 42).
DtypeOf(t) == IF t # None THEN t ELSE "float32"

\* DynamicVariable(dimension, key_type, dtype, mode) as a.
Construct(a) ==
    /\ key_type = KeyTypeOf(a.key_type)
    /\ handle_dtype = DtypeOf(a.dtype)
    /\ dimension = a.dimension
    /\ indices = NoIndices
    /\ mode = a.mode
    /\ tfBuffer = <<0>>
    /\ store = [k \in Keys |-> 0]
    /\ handle = InitHandle(a.mode)
    /\ last = Call("__init__", "ok", TRUE, dummy_handle)
    /\ lastSwitch = "none"
    /\ staticArg = NoIndices
    /\ snap = NoSnap
    /\ returned = NoReturn

Init ==
    /\ \E a \in CtorArgs : Construct(a)
    /\ gpus = 1
    /\ SessionIdle

is_static == handle = tf_handle

\* ------------------------------------------------- native ops (raw_ops)

\* The orders in which the n element updates of one kernel launch may land.
Orders(n) == {o \in [1..n -> 1..n] : \A i, j \in 1..n : o[i] = o[j] => i = j}

\* Every row of f is a value within the bound.
InRange(f) == \A k \in DOMAIN f : f[k] \in Values

\* dummy_var_sparse_read: one row per key, in the order of the keys.
dummy_var_sparse_read(st, ks) == [i \in 1..Len(ks) |-> st[ks[i]]]

\* Element updates ord[1..n] applied one after the other: row ix[i] becomes
\* its old value plus vs[i].
RECURSIVE AddInOrder(_, _, _, _, _)
AddInOrder(st, ix, vs, ord, n) ==
    IF n = 0 THEN st
    ELSE LET s == AddInOrder(st, ix, vs, ord, n - 1)
             i == ord[n]
         IN  [s EXCEPT ![ix[i]] = FAdd(@, vs[i])]

\* No addition of that run was rounded.
RECURSIVE ExactInOrder(_, _, _, _, _)
ExactInOrder(st, ix, vs, ord, n) ==
    IF n = 0 THEN TRUE
    ELSE LET s == AddInOrder(st, ix, vs, ord, n - 1)
             i == ord[n]
         IN  /\ ExactInOrder(st, ix, vs, ord, n - 1)
             /\ FAdd(s[ix[i]], vs[i]) = s[ix[i]] + vs[i]

\* Element updates ord[1..n] applied one after the other: row ix[i] becomes
\* vs[i].
RECURSIVE PutInOrder(_, _, _, _, _)
PutInOrder(st, ix, vs, ord, n) ==
    IF n = 0 THEN st
    ELSE LET s == PutInOrder(st, ix, vs, ord, n - 1)
             i == ord[n]
         IN  [s EXCEPT ![ix[i]] = vs[i]]

\* The values a kernel reads for n keys from a tensor of Len(vs) rows: the
\* rows that exist, and anything for the rows that do not.
RowsFor(vs, n) ==
    {p \in [1..n -> Values] : \A i \in 1..n : i <= Len(vs) => p[i] = vs[i]}

\* dummy_var_scatter_add: the store after the launch whose updates land in
\* the order ord.
dummy_var_scatter_add(st, ix, vs, ord) == AddInOrder(st, ix, vs, ord, Len(ix))

\* dummy_var_scatter_update: the stores the launch may leave.
dummy_var_scatter_update(st, ix, vs) ==
    {PutInOrder(st, ix, p, o, Len(ix)) : p \in RowsFor(vs, Len(ix)), o \in Orders(Len(ix))}

\* dummy_var_assign: the stores the launch may leave.
dummy_var_assign(st, ix, vs) == dummy_var_scatter_update(st, ix, vs)

\* ------------------------------------- framework base (ResourceVariable)

\* Row numbers of a dense buffer are zero-based; the buffer is a sequence.
RowsOf(ix) == [i \in 1..Len(ix) |-> ix[i] + 1]
RowsExist(buf, ix) == \A i \in 1..Len(ix) : ix[i] + 1 \in 1..Len(buf)

Neg(vs) == [i \in 1..Len(vs) |-> -vs[i]]

\* The framework's scatter_add, scatter_sub and scatter_update on the dense
\* buffer: the buffers the call may leave.
BaseScatter(op, buf, d) ==
    LET n == Len(d.indices)
    IN  CASE op = "scatter_add" ->
               {AddInOrder(buf, RowsOf(d.indices), d.values, o, n) : o \in Orders(n)}
          [] op = "scatter_sub" ->
               {AddInOrder(buf, RowsOf(d.indices), Neg(d.values), o, n) : o \in Orders(n)}
          [] OTHER ->
               {PutInOrder(buf, RowsOf(d.indices), d.values, o, n) : o \in Orders(n)}

\* ------------------------------------------------------ the adapter

\* A call that raises err before it has assigned anything.
Raise(op, err) ==
    /\ last' = Call(op, err, FALSE, "none")
    /\ UNCHANGED <<adapter, data, history>>

\* A call that returns without changing the instance or either store.
Return(op, base, native) ==
    /\ last' = Call(op, "ok", base, native)
    /\ UNCHANGED <<adapter, data, history>>

\* tf.cast(indices, tf.int64) of sparse_read: a local rebinding.
CastKeys(ind) == IF ind.dtype = "int32" THEN IndexTensor("int64", ind.keys) ELSE ind

\* The condition under which to_static switches (line 124).
ToStaticGuard == ~is_static /\ indices = NoIndices

\* Mutant: to_static records the indices as cast by sparse_read.
RecordedIndices_Cast(ind) == CastKeys(ind)

\* Mutant: to_static records the keys in reverse order.
RecordedIndices_Reversed(ind) ==
    [ind EXCEPT !.keys = [i \in 1..Len(ind.keys) |-> ind.keys[Len(ind.keys) + 1 - i]]]

\* The index set to_static records (line 126).
RecordedIndices(ind) == ind

\* Mutant: to_static activates a handle of its own making.
StaticHandle_Fresh == "fresh_handle"

\* The handle to_static makes active (line 127).
StaticHandle == tf_handle

\* sparse_read in dynamic mode returns one row per key, a tensor of shape
\* [n, dimension], which the base assign accepts for the buffer's shape
\* [None, dimension]; the assign that ends to_static is the base assign, the
\* handle being the framework's by then.
to_static(ind) ==
    /\ IF ToStaticGuard
         THEN IF ind.kind # "tensor"
                THEN \* sparse_read reads indices.dtype (line 201)
                     Raise("to_static", "AttributeError")
                ELSE LET buffer == dummy_var_sparse_read(store, CastKeys(ind).keys)
                     IN  /\ indices' = RecordedIndices(ind)
                         /\ handle' = StaticHandle
                         /\ tfBuffer' = buffer
                         /\ store' = store
                         /\ last' = Call("to_static", "ok", TRUE, dummy_handle)
                         /\ lastSwitch' = "to_static"
                         /\ staticArg' = ind
         ELSE Raise("to_static", "RuntimeError")
    /\ snap' = NoSnap
    /\ UNCHANGED <<ctor, elsewhere>>

\* Mutant: to_dynamic does not check the mode.
ToDynamicGuard_Always == TRUE

\* The condition under which to_dynamic switches (line 133).
ToDynamicGuard == is_static

\* Mutant: to_dynamic keeps the index set.
ClearedIndices_Kept == indices

\* The index set to_dynamic leaves recorded (line 136).
ClearedIndices == NoIndices

\* Mutant: to_dynamic leaves the framework's handle active.
DynamicHandle_Stays == tf_handle

\* The handle to_dynamic makes active (line 137).
DynamicHandle == dummy_handle

\* Mutant: the index set is cleared before the delta is built.
SparseDeltaOf_Cleared(buf, ind) == IndexedSlices(buf, NoIndices.keys)

\* The delta to_dynamic builds from the buffer read and the recorded index
\* set (line 135).
SparseDeltaOf(buf, ind) == IndexedSlices(buf, ind.keys)

\* read_value is the base's read of the dense buffer; the scatter_update that
\* ends to_dynamic takes the dynamic branch, the handle being the store's by
\* then.
to_dynamic ==
    /\ IF ToDynamicGuard
         THEN LET sparse_delta == SparseDeltaOf(tfBuffer, indices)
              IN  \E s \in dummy_var_scatter_update(store, sparse_delta.indices,
                                                    sparse_delta.values) :
                      /\ indices' = ClearedIndices
                      /\ handle' = DynamicHandle
                      /\ store' = s
                      /\ tfBuffer' = tfBuffer
                      /\ last' = Call("to_dynamic", "ok", TRUE, dummy_handle)
                      /\ lastSwitch' = "to_dynamic"
                      /\ staticArg' = NoIndices
                      /\ snap' = [phase |-> "flushed",
                                  delta |-> IndexedSlices(tfBuffer, indices.keys),
                                  store |-> store, exact |-> TRUE,
                                  direct |-> last.op = "to_static"
                                             /\ last.outcome = "ok"]
         ELSE Raise("to_dynamic", "RuntimeError") /\ snap' = NoSnap
    /\ UNCHANGED <<ctor, elsewhere>>

sparse_read(ind) ==
    /\ IF is_static
         THEN Return("sparse_read", TRUE, "none")
         ELSE IF ind.kind # "tensor"
                THEN Raise("sparse_read", "AttributeError")
                ELSE Return("sparse_read", FALSE, dummy_handle)
    /\ snap' = NoSnap
    /\ UNCHANGED <<ctor, elsewhere>>

\* Mutant: the dynamic branch does not check the delta's type.
IsIndexedSlices_Unchecked(d) == TRUE

\* The delta must be an ops.IndexedSlices (lines 210, 221, 232).
IsIndexedSlices(d) == d.slices

\* Mutant: scatter_sub forgets the negation.
SubValues_NotNegated(d) == d.values

\* The values scatter_sub hands to dummy_var_scatter_add (line 215).
SubValues(d) == Neg(d.values)

\* Mutant: the static branch forwards the delta to the dynamic store as well.
BaseScatterCall_Both(op, d) ==
    /\ tfBuffer' = tfBuffer
    /\ \E s \in dummy_var_scatter_update(store, d.indices, d.values) : store' = s
    /\ last' = Call(op, "ok", TRUE, "none")
    /\ UNCHANGED <<adapter, history>>

\* The static branch of scatter_sub, scatter_add and scatter_update: the
\* framework base is called with the delta as given.
BaseScatterCall(op, d) ==
    /\ IF d.slices /\ RowsExist(tfBuffer, d.indices)
         THEN /\ \E b \in BaseScatter(op, tfBuffer, d) :
                     InRange(b) /\ tfBuffer' = b
              /\ last' = Call(op, "ok", TRUE, "none")
         ELSE \* the base raises on the delta; the buffer is as it was
              /\ tfBuffer' = tfBuffer
              /\ last' = Call(op, "BaseError", TRUE, "none")
    /\ UNCHANGED <<adapter, store, history>>

scatter_sub(d) ==
    /\ IF is_static
         THEN BaseScatterCall("scatter_sub", d) /\ snap' = NoSnap
         ELSE IF ~IsIndexedSlices(d)
                THEN Raise("scatter_sub", "TypeError") /\ snap' = NoSnap
                ELSE \E o \in Orders(Len(d.indices)) :
                       LET s == dummy_var_scatter_add(store, d.indices, SubValues(d), o)
                           x == ExactInOrder(store, d.indices, SubValues(d), o,
                                             Len(d.indices))
                       IN  /\ InRange(s)
                           /\ store' = s
                           /\ last' = Call("scatter_sub", "ok", FALSE, dummy_handle)
                           /\ snap' = IF snap.phase = "added" /\ snap.delta = d
                                        THEN [snap EXCEPT !.phase = "subtracted",
                                                          !.exact = snap.exact /\ x]
                                        ELSE NoSnap
                           /\ UNCHANGED <<adapter, tfBuffer, history>>
    /\ UNCHANGED <<ctor, elsewhere>>

scatter_add(d) ==
    /\ IF is_static
         THEN BaseScatterCall("scatter_add", d) /\ snap' = NoSnap
         ELSE IF ~IsIndexedSlices(d)
                THEN Raise("scatter_add", "TypeError") /\ snap' = NoSnap
                ELSE \E o \in Orders(Len(d.indices)) :
                       LET s == dummy_var_scatter_add(store, d.indices, d.values, o)
                           x == ExactInOrder(store, d.indices, d.values, o,
                                             Len(d.indices))
                       IN  /\ InRange(s)
                           /\ store' = s
                           /\ last' = Call("scatter_add", "ok", FALSE, dummy_handle)
                           /\ snap' = [phase |-> "added", delta |-> d,
                                       store |-> store, exact |-> x,
                                       direct |-> FALSE]
                           /\ UNCHANGED <<adapter, tfBuffer, history>>
    /\ UNCHANGED <<ctor, elsewhere>>

scatter_update(d) ==
    /\ IF is_static
         THEN BaseScatterCall("scatter_update", d)
         ELSE IF ~IsIndexedSlices(d)
                THEN Raise("scatter_update", "TypeError")
                ELSE \E s \in dummy_var_scatter_update(store, d.indices, d.values) :
                       /\ store' = s
                       /\ last' = Call("scatter_update", "ok", FALSE, dummy_handle)
                       /\ UNCHANGED <<adapter, tfBuffer, history>>
    /\ snap' = NoSnap
    /\ UNCHANGED <<ctor, elsewhere>>

\* Methods that raise in both modes (lines 244-258).
UnsupportedMethods ==
    {"__deepcopy__", "__reduce__", "to_proto", "from_proto", "set_shape"}

Unsupported(m) ==
    /\ Raise(m, "NotImplementedError")
    /\ snap' = NoSnap
    /\ UNCHANGED <<ctor, elsewhere>>

\* Methods that delegate to the base when static and raise when dynamic
\* (lines 264-349).
StaticOnlyMethods ==
    {"is_initialized", "_read_variable_op", "value", "_dense_var_to_tensor",
     "_gather_saveables_for_checkpoint", "gather_nd", "assign_add", "assign",
     "scatter_max", "scatter_min", "scatter_mul", "scatter_dim",
     "batch_scatter_update", "scatter_nd_sub", "scatter_nd_update",
     "_strided_slice_assign", "__int__"}

\* Those of them that only read the dense buffer.
BaseReaders ==
    {"is_initialized", "_read_variable_op", "value", "_dense_var_to_tensor",
     "_gather_saveables_for_checkpoint", "gather_nd", "__int__"}

\* The base class has no method of that name: self._base.<name> is an
\* AttributeError.
BaseLacks == {"scatter_dim"}

\* self._base.<m>(t) on the dense buffer: assign replaces it by t; every other
\* writer computes new rows from the old ones and t, here any tensor t of the
\* buffer's shape, and raises on another shape.
BaseCall(m, t) ==
    /\ IF m \in BaseReaders
         THEN tfBuffer' = tfBuffer /\ last' = Call(m, "ok", TRUE, "none")
         ELSE IF m = "assign" \/ Len(t) = Len(tfBuffer)
                THEN tfBuffer' = t /\ last' = Call(m, "ok", TRUE, "none")
                ELSE tfBuffer' = tfBuffer /\ last' = Call(m, "BaseError", TRUE, "none")
    /\ UNCHANGED <<adapter, store, history>>

\* The tensors a call of m is tried with: the readers take none.
ArgsOf(m) == IF m \in BaseReaders \cup BaseLacks THEN {<<>>} ELSE TensorArgs

\* Mutant: __int__ lacks the gate.
Gate_MissingInt(m) == m = "__int__" \/ is_static

\* Mutant: assign's gate is the wrong way round.
Gate_AssignInverted(m) == IF m = "assign" THEN ~is_static ELSE is_static

\* The gate every static-only method opens with: if self.is_static().
Gate(m) == is_static

StaticOnly(m, t) ==
    /\ IF Gate(m)
         THEN IF m \in BaseLacks
                THEN Raise(m, "AttributeError")
                ELSE BaseCall(m, t)
         ELSE Raise(m, "NotImplementedError")
    /\ snap' = NoSnap
    /\ UNCHANGED <<ctor, elsewhere>>

\* The framework's scatter_div on the dense buffer: the rows named by the
\* delta get their quotients, here any values; the others stay.
BaseScatterDiv(buf, d) ==
    {b \in [1..Len(buf) -> Values] :
        \A r \in 1..Len(buf) :
            (\A i \in 1..Len(d.indices) : d.indices[i] + 1 # r) => b[r] = buf[r]}

\* scatter_div is not overridden (the class defines scatter_dim instead): the
\* call runs the framework base with the active handle, whichever it is.  With
\* the dynamic store's handle active the base finds no dense buffer behind it.
scatter_div(d) ==
    /\ IF is_static /\ d.slices /\ RowsExist(tfBuffer, d.indices)
         THEN /\ \E b \in BaseScatterDiv(tfBuffer, d) : tfBuffer' = b
              /\ last' = Call("scatter_div", "ok", TRUE, "none")
         ELSE /\ tfBuffer' = tfBuffer
              /\ last' = Call("scatter_div", "BaseError", TRUE, "none")
    /\ UNCHANGED <<adapter, store, history>>
    /\ snap' = NoSnap
    /\ UNCHANGED <<ctor, elsewhere>>

\* ------------------------------------------------------- free functions

\* var.handle: the handle the helpers pass to the native op.
VarHandle == handle

export ==
    /\ Return("export", FALSE, VarHandle)
    /\ snap' = NoSnap
    /\ UNCHANGED <<ctor, elsewhere>>

\* dummy_var_assign writes the dynamic store when it is given its handle; given
\* the framework's handle it finds no dynamic store to write.
assign(d) ==
    /\ d.slices
    /\ IF VarHandle = dummy_handle
         THEN \E s \in dummy_var_assign(store, d.indices, d.values) : store' = s
         ELSE store' = store
    /\ last' = Call("assign_helper", "ok", FALSE, VarHandle)
    /\ UNCHANGED <<adapter, tfBuffer, history>>
    /\ snap' = NoSnap
    /\ UNCHANGED <<ctor, elsewhere>>

\* ---------------------------------------------------------- specification

Next ==
    \/ \E ind \in IndexArgs : to_static(ind)
    \/ to_dynamic
    \/ \E ind \in IndexArgs : sparse_read(ind)
    \/ \E d \in DeltaArgs : scatter_sub(d)
    \/ \E d \in DeltaArgs : scatter_add(d)
    \/ \E d \in DeltaArgs : scatter_update(d)
    \/ \E d \in DeltaArgs : scatter_div(d)
    \/ \E m \in UnsupportedMethods : Unsupported(m)
    \/ \E m \in StaticOnlyMethods : \E t \in ArgsOf(m) : StaticOnly(m, t)
    \/ export
    \/ \E d \in DeltaArgs : assign(d)

Spec == Init /\ [][Next]_vars

\* ----------------------------------------------------------- property reads

\* The largest number of GPUs num_gpus() is tried with.
MaxGpus == 2

\* The mode strings target_gpu is tried with: None, a string that does not
\* start with "localized", and "localized:<n>" for integers n around the
\* range of device numbers.
GpuModes ==
    {NoneMode, OtherMode} \cup {LocalizedMode(n) : n \in -2..(MaxGpus + 1)}

\* A property read returned v.
Returned(v) == [given |-> TRUE, value |-> v]

\* The test target_gpu makes on the device number (line 176).
TooHigh(n) == n >= gpus

\* The target_gpu property.
target_gpu ==
    /\ IF ~mode.none /\ mode.localized
         THEN LET n == mode.gpu
              IN  IF TooHigh(n)
                    THEN Raise("target_gpu", "RuntimeError") /\ returned' = NoReturn
                    ELSE Return("target_gpu", FALSE, "none") /\ returned' = Returned(n)
         ELSE Return("target_gpu", FALSE, "none") /\ returned' = Returned(-1)
    /\ UNCHANGED <<ctor, snap, gpus, session>>

\* The properties that return a field, or num_gpus().
FieldProperties == {"indices", "dimension", "key_type", "handle_dtype", "num_gpus"}

\* What the property p returns.
FieldOf(p) ==
    CASE p = "indices" -> indices
      [] p = "dimension" -> dimension
      [] p = "key_type" -> key_type
      [] p = "handle_dtype" -> handle_dtype
      [] p = "num_gpus" -> gpus

\* A read of the property p.
ReadProperty(p) ==
    /\ Return(p, FALSE, "none")
    /\ returned' = Returned(FieldOf(p))
    /\ UNCHANGED <<ctor, snap, gpus, session>>

\* key_map returns its argument.
key_map(ind) ==
    /\ Return("key_map", FALSE, "none")
    /\ returned' = Returned(ind)
    /\ UNCHANGED <<ctor, snap, gpus, session>>

\* An instance built with any of the modes, on a machine with any number of
\* GPUs.
InitProperties ==
    /\ \E a \in CtorArgs : \E m \in GpuModes : Construct([a EXCEPT !.mode = m])
    /\ gpus \in 1..MaxGpus
    /\ SessionIdle

NextProperties ==
    \/ target_gpu
    \/ \E p \in FieldProperties : ReadProperty(p)
    \/ \E ind \in IndexArgs : key_map(ind)
    \/ \E ind \in IndexArgs : to_static(ind)
    \/ to_dynamic

SpecProperties == InitProperties /\ [][NextProperties]_vars

\* ------------------------------------------------------ session_impl_test

\* range(10000) of the loop.
Iterations == 10000

\* The period of the loss query.
LossEvery == 100

\* The period of the evaluation.
EvalEvery == 1000

\* What session_impl_test does not touch.
outside == <<adapter, ctor, data, last, history, snap, gpus, returned>>

\* if (i%100 == 0)
LossDue(i) == i % LossEvery = 0

\* Mutant: the evaluation is run in iteration 0 as well.
EvalDue_AtZero(i) == i % EvalEvery = 0

\* if (i%1000 == 0 and i != 0)
EvalDue(i) == i % EvalEvery = 0 /\ i # 0

\* The session has been made and the loop is about to ask range for its
\* first value.  iter is the value range yields next while pc is "for", and
\* the value of i inside the body.
SessionStart ==
    /\ iter = 0
    /\ pc = "for"
    /\ trains = 0
    /\ losses = 0
    /\ evals = 0

\* The head of the loop: the body is entered with the next i, or the loop and
\* with it the function ends.
for_i ==
    /\ pc = "for"
    /\ pc' = IF iter < Iterations THEN "train" ELSE "done"
    /\ UNCHANGED <<iter, trains, losses, evals>>
    /\ UNCHANGED outside

\* sess.train()
train ==
    /\ pc = "train"
    /\ trains' = trains + 1
    /\ pc' = "loss"
    /\ UNCHANGED <<iter, losses, evals>>
    /\ UNCHANGED outside

\* The first if of the body, with sess.get_current_loss() in it.
get_current_loss ==
    /\ pc = "loss"
    /\ losses' = IF LossDue(iter) THEN losses + 1 ELSE losses
    /\ pc' = "eval"
    /\ UNCHANGED <<iter, trains, evals>>
    /\ UNCHANGED outside

\* The second if of the body, with sess.evaluation() in it; the body ends.
evaluation ==
    /\ pc = "eval"
    /\ evals' = IF EvalDue(iter) THEN evals + 1 ELSE evals
    /\ iter' = iter + 1
    /\ pc' = "for"
    /\ UNCHANGED <<trains, losses>>
    /\ UNCHANGED outside

\* The test makes no DynamicVariable: the adapter's variables keep the value
\* of a default construction.
InitSession ==
    /\ Construct([dimension |-> 1, key_type |-> None, dtype |-> None,
                  mode |-> NoneMode])
    /\ gpus = 1
    /\ SessionStart

NextSession ==
    \/ for_i
    \/ train
    \/ get_current_loss
    \/ evaluation

\* The interpreter runs the statements one after the other, and every call
\* into the session returns.
SpecSession == InitSession /\ [][NextSession]_vars /\ WF_vars(NextSession)

\* ------------------------------------------------------------- properties

ModeSwitches == {"to_static", "to_dynamic"}

\* C1: in every reachable state the active handle is one of the two handles
\* made at construction, the two are distinct, and is_static() is true exactly
\* when the active handle is the framework's handle.
C1_HandleExclusive ==
    /\ handle \in {tf_handle, dummy_handle}
    /\ tf_handle # dummy_handle
    /\ is_static <=> handle = tf_handle
    /\ ~is_static <=> handle = dummy_handle

\* A failing call was made in static mode, after a switch.
C1_Witness ==
    /\ handle = tf_handle
    /\ last.op = "set_shape"
    /\ last.outcome = "NotImplementedError"

\* C2: until the first successful mode switch, whatever `mode` was given, the
\* instance is dynamic with no index set recorded, to_static is the switch
\* that is accepted and to_dynamic the one that is rejected.
C2_StartsDynamic ==
    lastSwitch = "none" =>
        /\ ~is_static
        /\ indices = NoIndices
        /\ ToStaticGuard
        /\ ~ToDynamicGuard

\* Constructed with a mode that is neither None nor localized, and to_dynamic
\* tried first.
C2_Witness ==
    /\ mode = OtherMode
    /\ lastSwitch = "none"
    /\ last.op = "to_dynamic"
    /\ last.outcome = "RuntimeError"

\* C3: to_static called while static and to_dynamic called while dynamic raise
\* RuntimeError and leave the active handle, the recorded index set, the dense
\* buffer and the dynamic store as they were.
C3_WrongModeRejected ==
    [][ /\ (is_static /\ \E ind \in IndexArgs : to_static(ind)) =>
             /\ last'.outcome = "RuntimeError"
             /\ UNCHANGED <<handle, indices, tfBuffer, store>>
        /\ (~is_static /\ to_dynamic) =>
             /\ last'.outcome = "RuntimeError"
             /\ UNCHANGED <<handle, indices, tfBuffer, store>> ]_vars

\* A second to_static with no to_dynamic in between was rejected.
C3_Witness ==
    /\ is_static
    /\ lastSwitch = "to_static"
    /\ last.op = "to_static"
    /\ last.outcome = "RuntimeError"

C5_IndicesRecordedThenCleared ==
    /\ is_static => (indices = staticArg /\ indices # NoIndices)
    /\ (last.op = "to_dynamic" /\ last.outcome = "ok") =>
          /\ handle = dummy_handle
          /\ indices = NoIndices
          /\ ToStaticGuard

\* A static phase with a write in it has ended: the rows assigned while
\* static are in the store.
C5_Witness ==
    /\ last.op = "to_dynamic"
    /\ last.outcome = "ok"
    /\ store = [k \in Keys |-> IF k = 0 THEN 2 ELSE 1]

\* The static-only methods C6 lists.
C6_Methods == StaticOnlyMethods \ {"scatter_dim"}

\* C6: a static-only method called while dynamic raises NotImplementedError,
\* does not reach the base implementation and leaves the active handle, the
\* recorded index set, the dense buffer and the dynamic store as they were.
C6_GatedWhileDynamic ==
    [][ \A m \in C6_Methods :
          (~is_static /\ \E t \in ArgsOf(m) : StaticOnly(m, t)) =>
             /\ last'.op = m
             /\ last'.outcome = "NotImplementedError"
             /\ ~last'.base
             /\ last'.native = "none"
             /\ UNCHANGED <<handle, indices, tfBuffer, store>> ]_vars

\* scatter_nd_update was rejected in dynamic mode, after a static phase.
C6_Witness ==
    /\ ~is_static
    /\ lastSwitch = "to_dynamic"
    /\ last.op = "scatter_nd_update"
    /\ last.outcome = "NotImplementedError"

\* The operations C7 lists: assign, gather, proto (de)serialization, shape
\* mutation, checkpoint save, deep copy, pickling, numeric coercion.
C7_Methods ==
    {"assign", "gather_nd", "to_proto", "from_proto", "set_shape",
     "_gather_saveables_for_checkpoint", "__deepcopy__", "__reduce__", "__int__"}

\* C7 as stated: in static mode each of them reaches the base implementation
\* and does not raise NotImplementedError.
C7_AllDelegateWhenStatic ==
    (is_static /\ last.op \in C7_Methods) =>
        (last.base /\ last.outcome # "NotImplementedError")

\* C7 amended: in static mode assign, gather_nd, the checkpoint save and
\* __int__ reach the base implementation and do not raise NotImplementedError;
\* to_proto, from_proto, set_shape, __deepcopy__ and __reduce__ raise
\* NotImplementedError in both modes without reaching the base.
C7_DelegateOrUnsupported ==
    /\ (is_static /\ last.op \in C7_Methods \ UnsupportedMethods) =>
          (last.base /\ last.outcome # "NotImplementedError")
    /\ last.op \in UnsupportedMethods =>
          (~last.base /\ last.outcome = "NotImplementedError")

\* __int__ was delegated to the base in static mode.
C7_Witness ==
    /\ is_static
    /\ last.op = "__int__"
    /\ last.outcome = "ok"
    /\ last.base

ReadWriteOps == {"sparse_read", "scatter_add", "scatter_sub", "scatter_update"}

\* C8: sparse_read, scatter_add, scatter_sub and scatter_update never raise
\* NotImplementedError and never change the active handle or the recorded
\* index set; when static they go to the base, issue no native op and leave the
\* dynamic store as it was; when dynamic they do not reach the base, leave the
\* dense buffer as it was and, unless they raise, go to the dynamic store.
C8_ReadWriteByMode ==
    [][ last'.op \in ReadWriteOps =>
          /\ last'.outcome # "NotImplementedError"
          /\ UNCHANGED <<handle, indices>>
          /\ is_static =>
               (last'.base /\ last'.native = "none" /\ store' = store)
          /\ ~is_static =>
               /\ ~last'.base
               /\ tfBuffer' = tfBuffer
               /\ last'.outcome = "ok" => last'.native = dummy_handle ]_vars

\* A static scatter_sub changed the dense buffer.
C8_Witness ==
    /\ is_static
    /\ last.op = "scatter_sub"
    /\ last.outcome = "ok"
    /\ tfBuffer = <<0, 1>>

\* C9: in dynamic mode scatter_add, scatter_sub and scatter_update of a delta
\* that is no IndexedSlices raise TypeError, issue no native op and leave the
\* active handle, the recorded index set, the dense buffer and the dynamic
\* store as they were.
C9_NonSparseDeltaRejected ==
    [][ (~is_static /\ (\/ scatter_add(NotSlices)
                        \/ scatter_sub(NotSlices)
                        \/ scatter_update(NotSlices))) =>
          /\ last'.outcome = "TypeError"
          /\ last'.native = "none"
          /\ ~last'.base
          /\ UNCHANGED <<handle, indices, tfBuffer, store>> ]_vars

\* scatter_update of a dense delta was rejected on a store that holds data.
C9_Witness ==
    /\ ~is_static
    /\ last.op = "scatter_update"
    /\ last.outcome = "TypeError"
    /\ store[1] = 2

C11_HelpersUseStoreHandle ==
    last.op \in {"export", "assign_helper"} => last.native = dummy_handle

\* C12: key_type, handle_dtype and dimension are what construction made of its
\* arguments, int64 and float32 standing in for a key type and a dtype not
\* given, and no step changes any of the three.
C12_CtorFixed ==
    /\ [](\E a \in CtorArgs :
            /\ mode = a.mode
            /\ dimension = a.dimension
            /\ key_type = (IF a.key_type = None THEN "int64" ELSE a.key_type)
            /\ handle_dtype = (IF a.dtype = None THEN "float32" ELSE a.dtype))
    /\ [][UNCHANGED <<key_type, handle_dtype, dimension>>]_vars

\* An instance built with a key type and a dtype of its own has been through
\* a static phase with a write and keeps both.
C12_Witness ==
    /\ key_type = "int32"
    /\ handle_dtype = "float16"
    /\ dimension = 2
    /\ snap.phase = "flushed"
    /\ ~snap.direct

\* The positions of a flush that have both a key and a buffer row.
FlushedPositions == DOMAIN snap.delta.indices \cap DOMAIN snap.delta.values

\* C13 as stated: right after to_dynamic the store holds, at the key of every
\* position of the recorded index set, the buffer row of that position.
C13_EveryPositionWritten ==
    snap.phase = "flushed" =>
        \A i \in FlushedPositions :
            store[snap.delta.indices[i]] = snap.delta.values[i]

\* C13 amended: right after to_dynamic the store holds, at a key that occurs
\* at one position only, the buffer row of that position, and at a key that
\* occurs at several positions what one of them wrote: the buffer row of that
\* position if the buffer has one.
C13_OnePositionPerKeyWritten ==
    snap.phase = "flushed" =>
        \A i \in FlushedPositions :
            \E j \in DOMAIN snap.delta.indices :
                /\ snap.delta.indices[j] = snap.delta.indices[i]
                /\ j \in FlushedPositions =>
                       store[snap.delta.indices[i]] = snap.delta.values[j]

\* A flush of two different rows recorded under one key: the store holds the
\* first, not the second.
C13_Witness ==
    /\ snap.phase = "flushed"
    /\ snap.delta = IndexedSlices(<<2, 1>>, <<1, 1>>)
    /\ store[1] = 2

\* C14: to_static leaves the store as it is, and right after a to_dynamic
\* that directly follows it the store is at every key what it was before.
C14_RoundTripKeepsStore ==
    /\ []((snap.phase = "flushed" /\ snap.direct) => store = snap.store)
    /\ [][last'.op = "to_static" => store' = store]_vars

\* A round trip over a repeated key whose row is not the initial one.
C14_Witness ==
    /\ snap.phase = "flushed"
    /\ snap.direct
    /\ snap.delta.indices = <<1, 1>>
    /\ store[1] = 2
    /\ store[0] = 1

\* C15: is_static() holds exactly while an index set is recorded.
C15_StaticIffIndices == is_static <=> indices # NoIndices

\* Back in dynamic mode, a to_static given something that is no tensor has
\* just failed.
C15_Witness ==
    /\ ~is_static
    /\ indices = NoIndices
    /\ lastSwitch = "to_dynamic"
    /\ last.op = "to_static"
    /\ last.outcome = "AttributeError"

\* The arithmetic scatters of the framework variable surface.
ArithmeticScatters ==
    {"scatter_add", "scatter_sub", "scatter_update", "scatter_max",
     "scatter_min", "scatter_mul", "scatter_div"}

\* C16: an arithmetic scatter called while dynamic does not reach the
\* framework base: add, sub and update go to the dynamic store or reject a
\* delta that is not sparse, max, min, mul and div raise NotImplementedError.
C16_ScattersGated ==
    (~is_static /\ last.op \in ArithmeticScatters) =>
        /\ ~last.base
        /\ last.op \in {"scatter_add", "scatter_sub", "scatter_update"} =>
               last.outcome \in {"ok", "TypeError"}
        /\ last.op \in {"scatter_max", "scatter_min", "scatter_mul", "scatter_div"} =>
               last.outcome = "NotImplementedError"

\* C17: what target_gpu returns is -1, for a mode that is not localized only,
\* or a device number from 0 to num_gpus() - 1; it raises for a localized mode
\* only, whose device number lies outside that range.
C17_TargetInRange ==
    last.op = "target_gpu" =>
        IF last.outcome = "ok"
          THEN \/ returned.value = -1 /\ ~mode.localized
               \/ returned.value \in 0..(gpus - 1)
          ELSE mode.localized /\ mode.gpu \notin 0..(gpus - 1)

\* The iterations, of the first n, in which the claim has the loss queried.
LossQueriesIn(n) == (n + 99) \div 100

\* The iterations, of the first n, in which the claim has the evaluation run.
EvaluationsIn(n) == IF n = 0 THEN 0 ELSE (n - 1) \div 1000

\* C18: the loop ends, after 10000 train steps, 100 loss queries and 9
\* evaluations; at every moment the train steps, loss queries and evaluations
\* made so far are those of the iterations begun, the loss having been
\* queried in the iterations divisible by 100 and the evaluation run in those
\* divisible by 1000 other than 0; a loss query comes after the train step of
\* its iteration and an evaluation after the loss test of its iteration.
C18_SessionLoop ==
    /\ [](/\ trains = iter + (IF pc \in {"loss", "eval"} THEN 1 ELSE 0)
          /\ losses = LossQueriesIn(iter + (IF pc = "eval" THEN 1 ELSE 0))
          /\ evals = EvaluationsIn(iter)
          /\ pc = "done" => trains = 10000 /\ losses = 100 /\ evals = 9)
    /\ [][/\ losses' # losses =>
               losses' = losses + 1 /\ iter % 100 = 0 /\ trains = iter + 1
          /\ evals' # evals =>
               /\ evals' = evals + 1
               /\ iter % 1000 = 0 /\ iter # 0
               /\ trains = iter + 1
               /\ losses = LossQueriesIn(iter + 1)
          /\ trains' # trains => trains' = trains + 1 /\ trains = iter]_vars
    /\ <>(pc = "done")

\* The loop has ended.
C18_Witness ==
    /\ pc = "done"
    /\ trains = 10000
    /\ losses = 100
    /\ evals = 9

====
